---- MODULE Spec2Model ----
(***************************************************************************)
(* A model of plexapi.collection.Collection (src/plexapi/collection.py).   *)
(*                                                                         *)
(* One Collection instance talks to one server.  Strings the code builds   *)
(* or rewrites (keys, request paths, uris) are sequences of one-character  *)
(* strings, so that replace, join, str and quoting are computed and not    *)
(* assumed.  A Python value that may be None is a sequence of length 0     *)
(* (None) or 1 (the value).                                                *)
(*                                                                         *)
(* Every method call is one step: it reads the instance, issues its        *)
(* requests in order and ends with a result or an exception.  The step     *)
(* leaves the call's name, arguments, exception and requests in op, arg,   *)
(* error and requests; the step Return hands control back to the caller.   *)
(***************************************************************************)
EXTENDS Integers, Sequences, FiniteSets, TLC

\* ------------------------------------------------------------------ bounds
\* Longest item sequence passed to addItems, removeItems and create.
MaxItems == 2
\* Fetches of <key>/children one instance may issue before the model stops it.
MaxFetches == 2
\* Number of pieces a raw key of ParseSpec is put together from.
MaxKeyPieces == 3

\* ----------------------------------------------------------- Python values
None == <<>>
Some(x) == <<x>>
IsNone(o) == o = <<>>
Val(o) == o[1]

\* -------------------------------------------------------- string constants
ChildrenSuffix == <<"/", "c", "h", "i", "l", "d", "r", "e", "n">>
ItemsSuffix == <<"/", "i", "t", "e", "m", "s">>
PrefsSuffix == <<"/", "p", "r", "e", "f", "s">>
MetadataPath == <<"/", "l", "i", "b", "r", "a", "r", "y", "/", "m", "e", "t", "a", "d", "a", "t", "a", "/">>
CollectionsPath == <<"/", "l", "i", "b", "r", "a", "r", "y", "/", "c", "o", "l", "l", "e", "c", "t", "i", "o", "n", "s">>
SectionsPath == <<"/", "l", "i", "b", "r", "a", "r", "y", "/", "s", "e", "c", "t", "i", "o", "n", "s">>
AllSuffix == <<"/", "a", "l", "l">>
PlayQueuesPath == <<"/", "p", "l", "a", "y", "Q", "u", "e", "u", "e", "s">>
AccountPath == <<"/", "m", "y", "p", "l", "e", "x", "/", "a", "c", "c", "o", "u", "n", "t">>
SyncItemsPath == <<"/", "s", "y", "n", "c", "/", "i", "t", "e", "m", "s">>
DirectoryUri == <<"l", "i", "b", "r", "a", "r", "y", ":", "/", "/", "/", "d", "i", "r", "e", "c", "t", "o", "r", "y", "/">>
ExcludeLeaves == <<"?", "e", "x", "c", "l", "u", "d", "e", "A", "l", "l", "L", "e", "a", "v", "e", "s", "=", "1">>
UriName == <<"u", "r", "i">>
TypeName == <<"t", "y", "p", "e">>
TitleName == <<"t", "i", "t", "l", "e">>
SmartName == <<"s", "m", "a", "r", "t">>
SectionIdName == <<"s", "e", "c", "t", "i", "o", "n", "I", "d">>
LimitName == <<"l", "i", "m", "i", "t">>
SortName == <<"s", "o", "r", "t">>
TitleSortName == <<"t", "i", "t", "l", "e", "S", "o", "r", "t">>
ContentRatingName == <<"c", "o", "n", "t", "e", "n", "t", "R", "a", "t", "i", "n", "g">>
SummaryName == <<"s", "u", "m", "m", "a", "r", "y">>
ValueSuffix == <<".", "v", "a", "l", "u", "e">>
LockedSuffix == <<".", "l", "o", "c", "k", "e", "d">>
CollectionModeName == <<"c", "o", "l", "l", "e", "c", "t", "i", "o", "n", "M", "o", "d", "e">>
CollectionSortName == <<"c", "o", "l", "l", "e", "c", "t", "i", "o", "n", "S", "o", "r", "t">>
Digits == <<"0", "1", "2", "3", "4", "5", "6", "7", "8", "9">>

\* server._uriRoot(): the server's identity root.
UriRoot == <<"s", "e", "r", "v", "e", "r", ":", "/", "/", "M">>

\* ---------------------------------------------------------- string helpers
\* str(n) for a natural number n.
RECURSIVE Str(_)
Str(n) == IF n < 10 THEN <<Digits[n + 1]>> ELSE Str(n \div 10) \o <<Digits[(n % 10) + 1]>>

\* str(n) for an integer n.
StrInt(n) == IF n < 0 THEN <<"-">> \o Str(0 - n) ELSE Str(n)

\* sep.join(parts)
RECURSIVE Join(_, _)
Join(parts, sep) ==
    IF parts = <<>> THEN <<>>
    ELSE IF Len(parts) = 1 THEN parts[1]
    ELSE parts[1] \o sep \o Join(Tail(parts), sep)

StartsWith(s, p) == Len(p) <= Len(s) /\ SubSeq(s, 1, Len(p)) = p
EndsWith(s, p) == Len(p) <= Len(s) /\ SubSeq(s, Len(s) - Len(p) + 1, Len(s)) = p

\* s.replace(old, new) for a non-empty old: every non-overlapping occurrence,
\* scanning from the left.
RECURSIVE Replace(_, _, _)
Replace(s, old, new) ==
    IF s = <<>> THEN <<>>
    ELSE IF StartsWith(s, old)
         THEN new \o Replace(SubSeq(s, Len(old) + 1, Len(s)), old, new)
         ELSE <<s[1]>> \o Replace(Tail(s), old, new)

\* urllib.parse.quote(s, safe=''), on the characters the model uses.
QuoteChar(c) ==
    CASE c = "/" -> <<"%", "2", "F">>
      [] c = ":" -> <<"%", "3", "A">>
      [] c = "," -> <<"%", "2", "C">>
      [] c = "?" -> <<"%", "3", "F">>
      [] c = "=" -> <<"%", "3", "D">>
      [] c = "&" -> <<"%", "2", "6">>
      [] OTHER -> <<c>>
RECURSIVE Quote(_)
Quote(s) == IF s = <<>> THEN <<>> ELSE QuoteChar(s[1]) \o Quote(Tail(s))

\* utils.joinArgs(args): '?' and the name=quote(str(value)) pairs joined by
\* '&'.  args is the sequence of <<name, value>> pairs in the order joinArgs
\* emits them (names sorted without regard to case).
JoinArgs(args) ==
    IF args = <<>> THEN <<>>
    ELSE <<"?">> \o Join([i \in 1..Len(args) |-> args[i][1] \o <<"=">> \o Quote(args[i][2])], <<"&">>)

\* ----------------------------------------------------------------- inputs
\* Media items handed to addItems, removeItems and create.
ItemTypes == {"movie", "track"}
RatingKeys == {7, 12}
MediaItems == [type : ItemTypes, ratingKey : RatingKeys]
ItemSeqs == UNION {[1..n -> MediaItems] : n \in 0..MaxItems}

\* The items argument: one item that is no list, or a list or tuple.
ItemArgs == [form : {"one"}, val : MediaItems] \cup [form : {"seq"}, val : ItemSeqs]

\* Library sections of the server.
Sections == [key : {1}, allowSync : BOOLEAN, TYPE : {"movie"}]

\* Attribute records the server returns for a collection.
BaseKey == <<"/", "c", "/", "5">>
RawKeyOpts == {None, Some(BaseKey), Some(BaseKey \o ChildrenSuffix)}
SmartOpts == {None, Some("0"), Some("1")}
SubtypeOpts == {None, Some("movie"), Some("track"), Some("photo")}
TitleOpts == {None, Some(<<"T">>)}
Records == [key : RawKeyOpts, smart : SmartOpts, subtype : SubtypeOpts, title : TitleOpts]

\* Member lists the server returns for <key>/children.
MemberLists == {<<>>, <<[type |-> "movie", ratingKey |-> 7, title |-> <<"F", "o">>]>>}

\* Arguments of updateFilters and of smart creation.
FilterArgs == [libtype : {None, Some("track")}, limit : {None, Some(5)},
               sort : {None, Some(<<"a">>)}, filters : {None}]

\* Names given to modeUpdate and sortUpdate; None is the argument left out.
ModeArgs == {None, Some("default"), Some("hide"), Some("hideItems"), Some("showItems"),
             Some("release"), Some("")}
SortArgs == {None, Some("release"), Some("alpha"), Some("custom"), Some("hide"), Some("")}

\* Arguments of edit.
EditInputs == [title : {None, Some(<<"N">>)}, titleSort : {None, Some(<<"n">>)},
               contentRating : {None}, summary : {None, Some(<<"s">>)}]

\* Arguments of sync.
SyncArgs == [title : {None, Some(<<>>), Some(<<"S">>)}, limit : {None, Some(5)},
             unwatched : {FALSE}]

\* Arguments of create: the section as a LibrarySection or as a name.
NoFilters == [libtype |-> None, limit |-> None, sort |-> None, filters |-> None]
CreateArgs ==
    [title : {<<"N">>}, section : {"object", "name"}, smart : {FALSE},
     items : ItemArgs \cup {[form |-> "none"]}, filters : {NoFilters}]
    \cup
    [title : {<<"N">>}, section : {"object", "name"}, smart : {TRUE},
     items : {[form |-> "none"]}, filters : FilterArgs]

\* Titles asked of item() and get().
TitleArgs == {<<"f", "O">>, <<"x">>}

\* Indices given to collection[key], counted from 0 and from the end.
IndexArgs == {0 - 1, 0, 1}

\* ------------------------------------------------------------------ state
VARIABLES
    live,       \* an instance exists
    pc,         \* "idle": the caller may call; "returned": a call has just ended
    rawKey,     \* the key attribute of the record the instance was parsed from
    key, smart, subtype, title,     \* parsed attributes of the instance
    _items,     \* cache for self.items
    _section,   \* cache for self.section
    fetches,    \* requests for <key>/children the instance has issued
    gen,        \* the generator of __iter__ the caller holds, or None
    op, arg,    \* the call that has just ended and its arguments
    error,      \* the exception it ended with, or "none"
    result,     \* the value it returned, or None
    requests    \* the requests it issued, in order

vars == <<live, pc, rawKey, key, smart, subtype, title, _items, _section, fetches, gen,
          op, arg, error, result, requests>>
inst == <<rawKey, key, smart, subtype, title>>
caches == <<_items, _section, fetches>>

NoArg == [form |-> "none"]

\* The caller may call a method of the instance; it may make an instance.
CanCall == live /\ pc = "idle"
CanMake == ~live /\ pc = "idle"

\* ------------------------------------------------------------ the transport
\* A request: method, and the path with its query string.
Request(method, path) == [method |-> method, path |-> path]

\* server.query and its like, failAt being the number of the request of this
\* call on which the transport fails (0: on none).  The result of issuing r
\* after the requests reqs.
Failed(reqs, failAt) == Len(reqs) = failAt /\ failAt > 0

\* ---------------------------------------------------------------- parsing
\* utils.cast(bool, value) on the values the server sends.
CastBool(v) == v = "1"

\* data.attrib.get('key', '').replace('/children', '')
ParseKey(k) == Replace(IF IsNone(k) THEN <<>> ELSE Val(k), ChildrenSuffix, <<>>)

\* utils.cast(bool, data.attrib.get('smart', '0'))
ParseSmart(s) == CastBool(IF IsNone(s) THEN "0" ELSE Val(s))

\* Collection._loadData
LoadData(data) ==
    /\ rawKey' = data.key
    /\ key' = ParseKey(data.key)
    /\ smart' = ParseSmart(data.smart)
    /\ subtype' = data.subtype
    /\ title' = data.title
    /\ _items' = None
    /\ _section' = None

\* The read path: an instance is made from a record the server returned.
Construct(data) ==
    /\ CanMake
    /\ live' = TRUE
    /\ LoadData(data)
    /\ UNCHANGED <<pc, fetches, gen, op, arg, error, result, requests>>

\* -------------------------------------------------------------- membership
\* if items and not isinstance(items, (list, tuple)): items = [items]
AsList(a) == IF a.form = "one" THEN <<a.val>> ELSE a.val

\* Mutant: only the first item's type is tested.
CollectKeys_FirstOnly(items, expected, acc) ==
    [ok |-> items = <<>> \/ Some(items[1].type) = expected,
     keys |-> acc \o [i \in 1..Len(items) |-> Str(items[i].ratingKey)]]

\* Mutant: each ratingKey is put in front of the ones collected before it.
CollectKeys_Reversed(items, expected, acc) ==
    [ok |-> \A i \in 1..Len(items) : Some(items[i].type) = expected,
     keys |-> acc \o [i \in 1..Len(items) |-> Str(items[Len(items) + 1 - i].ratingKey)]]

\* The loop over the items: the ratingKeys as strings, up to the first item
\* whose type is not the expected one.
RECURSIVE CollectKeys(_, _, _)
CollectKeys(items, expected, acc) ==
    IF items = <<>> THEN [ok |-> TRUE, keys |-> acc]
    ELSE IF Some(items[1].type) # expected THEN [ok |-> FALSE, keys |-> acc]
    ELSE CollectKeys(Tail(items), expected, Append(acc, Str(items[1].ratingKey)))

\* '%s/library/metadata/%s' % (server._uriRoot(), ','.join(ratingKeys))
MetadataUri(keys) == UriRoot \o MetadataPath \o Join(keys, <<",">>)

\* Mutant: the guard of addItems and removeItems is missing.
RegularOnlyRejects_Never == FALSE

\* if self.smart: raise BadRequest(...)   (addItems, removeItems)
RegularOnlyRejects == smart

\* Mutant: updateFilters rejects every collection.
SmartOnlyRejects_Always == TRUE

\* if not self.smart: raise BadRequest(...)   (updateFilters)
SmartOnlyRejects == ~smart

\* The request addItems issues for the collected ratingKeys.
AddItemsRequest(keys) ==
    Request("PUT", key \o ItemsSuffix \o JoinArgs(<<<<UriName, MetadataUri(keys)>>>>))

\* Mutant: the ratingKeys collected before the mismatch are sent, and the
\* mismatch is raised after that.
AddItemsCall_SendThenRaise(a, failAt) ==
    IF RegularOnlyRejects THEN [error |-> "BadRequest", requests |-> <<>>]
    ELSE LET c == CollectKeys(AsList(a), subtype, <<>>)
             reqs == <<AddItemsRequest(c.keys)>>
         IN  [error |-> IF ~c.ok THEN "BadRequest"
                        ELSE IF Failed(reqs, failAt) THEN "Transport" ELSE "none",
              requests |-> reqs]

\* Collection.addItems: the exception and the requests of one call.
AddItemsCall(a, failAt) ==
    IF RegularOnlyRejects THEN [error |-> "BadRequest", requests |-> <<>>]
    ELSE LET c == CollectKeys(AsList(a), subtype, <<>>)
             reqs == <<AddItemsRequest(c.keys)>>
         IN  IF ~c.ok THEN [error |-> "BadRequest", requests |-> <<>>]
             ELSE [error |-> IF Failed(reqs, failAt) THEN "Transport" ELSE "none",
                   requests |-> reqs]

AddItems(a, failAt) ==
    /\ CanCall
    /\ LET r == AddItemsCall(a, failAt)
       IN  /\ error' = r.error
           /\ requests' = r.requests
    /\ result' = None
    /\ op' = "addItems" /\ arg' = a /\ pc' = "returned"
    /\ UNCHANGED <<live, inst, gen, caches>>

\* The DELETE for one item: '%s/items/%s' % (self.key, item.ratingKey)
RemoveRequest(item) == Request("DELETE", key \o ItemsSuffix \o <<"/">> \o Str(item.ratingKey))

\* The loop of removeItems: one request per item, stopping at the request the
\* transport fails on.
\* Mutant: a failed request does not stop the loop, the error is raised
\* once every item has been sent.
RemoveLoop_KeepGoing(items, reqs, failAt) ==
    [error |-> IF failAt \in (Len(reqs) + 1)..(Len(reqs) + Len(items))
               THEN "Transport" ELSE "none",
     requests |-> reqs \o [i \in 1..Len(items) |-> RemoveRequest(items[i])]]

RECURSIVE RemoveLoop(_, _, _)
RemoveLoop(items, reqs, failAt) ==
    IF items = <<>> THEN [error |-> "none", requests |-> reqs]
    ELSE LET now == Append(reqs, RemoveRequest(items[1]))
         IN  IF Failed(now, failAt) THEN [error |-> "Transport", requests |-> now]
             ELSE RemoveLoop(Tail(items), now, failAt)

\* Collection.removeItems
RemoveItemsCall(a, failAt) ==
    IF RegularOnlyRejects THEN [error |-> "BadRequest", requests |-> <<>>]
    ELSE RemoveLoop(AsList(a), <<>>, failAt)

RemoveItems(a, failAt) ==
    /\ CanCall
    /\ LET r == RemoveItemsCall(a, failAt)
       IN  /\ error' = r.error
           /\ requests' = r.requests
    /\ result' = None
    /\ op' = "removeItems" /\ arg' = a /\ pc' = "returned"
    /\ UNCHANGED <<live, inst, gen, caches>>

\* ----------------------------------------------------------- member listing
\* Mutant: an empty member list counts as no list (if not self._items).
ItemsCachedIn_Truthy(cache) == ~IsNone(cache) /\ Val(cache) # <<>>

\* if self._items is None, negated
ItemsCachedIn(cache) == ~IsNone(cache)

\* self.fetchItems('%s/children' % self.key)
ChildrenRequest == Request("GET", key \o ChildrenSuffix)

\* Collection.items, called inside a call that has issued reqs: the member
\* list, fetched from <key>/children when the cache holds none.  members is
\* the list the server answers with.
ItemsOf(reqs, failAt, members) ==
    IF ItemsCachedIn(_items)
    THEN [error |-> "none", requests |-> reqs, cache |-> _items, value |-> _items]
    ELSE LET now == Append(reqs, ChildrenRequest)
         IN  IF Failed(now, failAt)
             THEN [error |-> "Transport", requests |-> now, cache |-> _items, value |-> None]
             ELSE [error |-> "none", requests |-> now, cache |-> Some(members),
                   value |-> Some(members)]

\* The requests for <key>/children among reqs.
Fetched(reqs) == Cardinality({i \in 1..Len(reqs) : reqs[i] = ChildrenRequest})

\* A call that lists the members may be made while the model's bound on the
\* fetches allows the fetch it may need.
MayList == ItemsCachedIn(_items) \/ fetches < MaxFetches

Items(members, failAt) ==
    /\ CanCall /\ MayList
    /\ LET r == ItemsOf(<<>>, failAt, members)
       IN  /\ error' = r.error
           /\ requests' = r.requests
           /\ _items' = r.cache
           /\ result' = r.value
           /\ fetches' = fetches + Fetched(r.requests)
    /\ op' = "items" /\ arg' = NoArg /\ pc' = "returned"
    /\ UNCHANGED <<live, inst, gen, _section>>

\* Collection.children: the deprecated name of items()
Children(members, failAt) ==
    /\ CanCall /\ MayList
    /\ LET r == ItemsOf(<<>>, failAt, members)
       IN  /\ error' = r.error
           /\ requests' = r.requests
           /\ _items' = r.cache
           /\ result' = r.value
           /\ fetches' = fetches + Fetched(r.requests)
    /\ op' = "children" /\ arg' = NoArg /\ pc' = "returned"
    /\ UNCHANGED <<live, inst, gen, _section>>

\* Collection.__len__: len(self.items())
__len__(members, failAt) ==
    /\ CanCall /\ MayList
    /\ LET r == ItemsOf(<<>>, failAt, members)
       IN  /\ error' = r.error
           /\ requests' = r.requests
           /\ _items' = r.cache
           /\ result' = IF r.error = "none" THEN Some(Len(Val(r.value))) ELSE None
           /\ fetches' = fetches + Fetched(r.requests)
    /\ op' = "__len__" /\ arg' = NoArg /\ pc' = "returned"
    /\ UNCHANGED <<live, inst, gen, _section>>

\* Collection.__iter__ is a generator function: the call makes a generator
\* and runs none of its body, so it issues no request and caches nothing.
__iter__ ==
    /\ CanCall /\ IsNone(gen)
    /\ gen' = Some([state |-> "created", rest |-> <<>>])
    /\ error' = "none" /\ requests' = <<>> /\ result' = Some("generator")
    /\ op' = "__iter__" /\ arg' = NoArg /\ pc' = "returned"
    /\ UNCHANGED <<live, inst, caches>>

\* next() on the generator of __iter__.  The first one runs self.items() and
\* the loop up to its first yield; the later ones go on through the list the
\* loop holds.  None stands for StopIteration; an exception ends the
\* generator, and the caller drops a generator that has ended.
IterNextCall(members, failAt) ==
    IF Val(gen).state = "created"
    THEN LET r == ItemsOf(<<>>, failAt, members)
             list == Val(r.value)
         IN  IF r.error # "none" THEN [r EXCEPT !.value = None] @@ [gen |-> None]
             ELSE IF list = <<>>
             THEN [r EXCEPT !.error = "StopIteration", !.value = None] @@ [gen |-> None]
             ELSE [r EXCEPT !.value = Some(list[1])]
                  @@ [gen |-> Some([state |-> "running", rest |-> Tail(list)])]
    ELSE LET rest == Val(gen).rest
         IN  IF rest = <<>>
             THEN [error |-> "StopIteration", requests |-> <<>>, cache |-> _items,
                   value |-> None, gen |-> None]
             ELSE [error |-> "none", requests |-> <<>>, cache |-> _items,
                   value |-> Some(rest[1]),
                   gen |-> Some([state |-> "running", rest |-> Tail(rest)])]

IterNext(members, failAt) ==
    /\ CanCall /\ ~IsNone(gen)
    /\ Val(gen).state = "created" => MayList
    /\ LET r == IterNextCall(members, failAt)
       IN  /\ error' = r.error
           /\ requests' = r.requests
           /\ _items' = r.cache
           /\ result' = r.value
           /\ gen' = r.gen
           /\ fetches' = fetches + Fetched(r.requests)
    /\ op' = "next" /\ arg' = NoArg /\ pc' = "returned"
    /\ UNCHANGED <<live, inst, _section>>

\* item.key: the path of an item, made of its ratingKey.
ItemKey(i) == MetadataPath \o Str(i.ratingKey)

\* Collection.__contains__: any(i.key == other.key for i in self.items())
__contains__(other, members, failAt) ==
    /\ CanCall /\ MayList
    /\ LET r == ItemsOf(<<>>, failAt, members)
           list == Val(r.value)
       IN  /\ error' = r.error
           /\ requests' = r.requests
           /\ _items' = r.cache
           /\ result' = IF r.error = "none"
                        THEN Some(\E n \in 1..Len(list) : ItemKey(list[n]) = ItemKey(other))
                        ELSE None
           /\ fetches' = fetches + Fetched(r.requests)
    /\ op' = "__contains__" /\ arg' = [form |-> "one", val |-> other] /\ pc' = "returned"
    /\ UNCHANGED <<live, inst, gen, _section>>

\* list[k] of Python: None stands for raise IndexError.
ListIndex(list, k) ==
    IF k >= 0 /\ k < Len(list) THEN Some(list[k + 1])
    ELSE IF k < 0 /\ k + Len(list) >= 0 THEN Some(list[k + Len(list) + 1])
    ELSE None

\* Collection.__getitem__: self.items()[key]
__getitem__(k, members, failAt) ==
    /\ CanCall /\ MayList
    /\ LET r == ItemsOf(<<>>, failAt, members)
           got == ListIndex(Val(r.value), k)
       IN  /\ error' = IF r.error # "none" THEN r.error
                       ELSE IF IsNone(got) THEN "IndexError" ELSE "none"
           /\ requests' = r.requests
           /\ _items' = r.cache
           /\ result' = IF r.error = "none" THEN got ELSE None
           /\ fetches' = fetches + Fetched(r.requests)
    /\ op' = "__getitem__" /\ arg' = [form |-> "index", val |-> k] /\ pc' = "returned"
    /\ UNCHANGED <<live, inst, gen, _section>>

\* str.lower() on the letters the model uses.
LowerChar(c) ==
    CASE c = "F" -> "f"
      [] c = "O" -> "o"
      [] OTHER -> c
Lower(s) == [i \in 1..Len(s) |-> LowerChar(s[i])]

\* The loop of item(): the first member whose title matches, or None.
RECURSIVE FindTitle(_, _)
FindTitle(members, t) ==
    IF members = <<>> THEN None
    ELSE IF Lower(members[1].title) = Lower(t) THEN Some(members[1])
    ELSE FindTitle(Tail(members), t)

\* Collection.item
ItemCall(t, members, failAt) ==
    LET r == ItemsOf(<<>>, failAt, members)
        found == FindTitle(Val(r.value), t)
    IN  IF r.error # "none" THEN r
        ELSE [r EXCEPT !.error = IF IsNone(found) THEN "NotFound" ELSE "none",
                       !.value = found]

Item(t, members, failAt) ==
    /\ CanCall /\ MayList
    /\ LET r == ItemCall(t, members, failAt)
       IN  /\ error' = r.error
           /\ requests' = r.requests
           /\ _items' = r.cache
           /\ result' = r.value
           /\ fetches' = fetches + Fetched(r.requests)
    /\ op' = "item" /\ arg' = [form |-> "title", val |-> t] /\ pc' = "returned"
    /\ UNCHANGED <<live, inst, gen, _section>>

\* Collection.get: an alias of item
Get(t, members, failAt) ==
    /\ CanCall /\ MayList
    /\ LET r == ItemCall(t, members, failAt)
       IN  /\ error' = r.error
           /\ requests' = r.requests
           /\ _items' = r.cache
           /\ result' = r.value
           /\ fetches' = fetches + Fetched(r.requests)
    /\ op' = "get" /\ arg' = [form |-> "title", val |-> t] /\ pc' = "returned"
    /\ UNCHANGED <<live, inst, gen, _section>>

\* PlayQueue.create(server, items, ...): the request that makes the queue.
PlayQueueRequest == Request("POST", PlayQueuesPath)

\* Collection.playQueue
PlayQueueCall(members, failAt) ==
    LET r == ItemsOf(<<>>, failAt, members)
        now == Append(r.requests, PlayQueueRequest)
    IN  IF r.error # "none" THEN r
        ELSE [r EXCEPT !.requests = now,
                       !.error = IF Failed(now, failAt) THEN "Transport" ELSE "none",
                       !.value = IF Failed(now, failAt) THEN None ELSE Some("PlayQueue")]

PlayQueue(members, failAt) ==
    /\ CanCall /\ MayList
    /\ LET r == PlayQueueCall(members, failAt)
       IN  /\ error' = r.error
           /\ requests' = r.requests
           /\ _items' = r.cache
           /\ result' = r.value
           /\ fetches' = fetches + Fetched(r.requests)
    /\ op' = "playQueue" /\ arg' = NoArg /\ pc' = "returned"
    /\ UNCHANGED <<live, inst, gen, _section>>

\* ------------------------------------------------------------ the section
\* PlexPartialObject.section(): the lookup of the owning section.
SectionRequest == Request("GET", SectionsPath)

\* Collection.section, called inside a call that has issued reqs: the owning
\* section, looked up when the cache holds none.  s is the section the
\* server answers with.
SectionOf(reqs, failAt, s) ==
    IF ~IsNone(_section)
    THEN [error |-> "none", requests |-> reqs, cache |-> _section, value |-> _section]
    ELSE LET now == Append(reqs, SectionRequest)
         IN  IF Failed(now, failAt)
             THEN [error |-> "Transport", requests |-> now, cache |-> _section, value |-> None]
             ELSE [error |-> "none", requests |-> now, cache |-> Some(s), value |-> Some(s)]

\* Collection.section, called by the caller.
Section(s, failAt) ==
    /\ CanCall
    /\ LET r == SectionOf(<<>>, failAt, s)
       IN  /\ error' = r.error
           /\ requests' = r.requests
           /\ _section' = r.cache
           /\ result' = r.value
    /\ op' = "section" /\ arg' = NoArg /\ pc' = "returned"
    /\ UNCHANGED <<live, inst, gen, _items, fetches>>

\* utils.searchType(libtype): the numeric code of a media type.
SearchType(t) ==
    CASE t = "movie" -> 1
      [] t = "show" -> 2
      [] t = "season" -> 3
      [] t = "episode" -> 4
      [] t = "artist" -> 8
      [] t = "album" -> 9
      [] t = "track" -> 10
      [] t = "photo" -> 13

\* The name=value pairs of the arguments that are given.
RECURSIVE Given(_)
Given(pairs) ==
    IF pairs = <<>> THEN <<>>
    ELSE IF IsNone(pairs[1][2]) THEN Given(Tail(pairs))
    ELSE <<<<pairs[1][1], Val(pairs[1][2])>>>> \o Given(Tail(pairs))

\* LibrarySection._buildSearchKey(sort, libtype, limit, filters): the path of
\* the section's search with the given arguments as its query.
BuildSearchKey(s, f) ==
    SectionsPath \o <<"/">> \o Str(s.key) \o AllSuffix
        \o JoinArgs(Given(<<
            <<LimitName, IF IsNone(f.limit) THEN None ELSE Some(Str(Val(f.limit)))>>,
            <<SortName, f.sort>>,
            <<TypeName, IF IsNone(f.libtype) THEN None ELSE Some(Str(SearchType(Val(f.libtype))))>>>>))

\* The request updateFilters issues for the section's search key.
FiltersRequest(searchKey) ==
    Request("PUT", key \o ItemsSuffix \o JoinArgs(<<<<UriName, UriRoot \o searchKey>>>>))

\* updateFilters from the section on: sec is what self.section() gave.
UpdateFiltersSend(f, sec, failAt) ==
    LET now == Append(sec.requests, FiltersRequest(BuildSearchKey(Val(sec.value), f)))
    IN  IF sec.error # "none"
        THEN [error |-> sec.error, requests |-> sec.requests, cache |-> sec.cache]
        ELSE [error |-> IF Failed(now, failAt) THEN "Transport" ELSE "none",
              requests |-> now, cache |-> sec.cache]

\* Mutant: the section is looked up before the smart flag is tested.
UpdateFiltersCall_LookupFirst(f, s, failAt) ==
    LET sec == SectionOf(<<>>, failAt, s)
    IN  IF sec.error = "none" /\ SmartOnlyRejects
        THEN [error |-> "BadRequest", requests |-> sec.requests, cache |-> sec.cache]
        ELSE UpdateFiltersSend(f, sec, failAt)

\* Collection.updateFilters
UpdateFiltersCall(f, s, failAt) ==
    IF SmartOnlyRejects
    THEN [error |-> "BadRequest", requests |-> <<>>, cache |-> _section]
    ELSE UpdateFiltersSend(f, SectionOf(<<>>, failAt, s), failAt)

UpdateFilters(f, s, failAt) ==
    /\ CanCall
    /\ LET r == UpdateFiltersCall(f, s, failAt)
       IN  /\ error' = r.error
           /\ requests' = r.requests
           /\ _section' = r.cache
    /\ result' = None
    /\ op' = "updateFilters" /\ arg' = [form |-> "filters", val |-> f] /\ pc' = "returned"
    /\ UNCHANGED <<live, inst, gen, _items, fetches>>

\* ------------------------------------------------------- advanced settings
\* mode_dict.get(mode)
ModeKey(mode) ==
    CASE mode = Some("default") -> Some(0 - 1)
      [] mode = Some("hide") -> Some(0)
      [] mode = Some("hideItems") -> Some(1)
      [] mode = Some("showItems") -> Some(2)
      [] OTHER -> None

\* sort_dict.get(sort)
SortKey(sort) ==
    CASE sort = Some("release") -> Some(0)
      [] sort = Some("alpha") -> Some(1)
      [] sort = Some("custom") -> Some(2)
      [] OTHER -> None

\* Mutant: the code 0 counts as no code (if not key).
UnknownKey_Falsy(k) == IsNone(k) \/ Val(k) = 0

\* if key is None: raise BadRequest(...)
UnknownKey(k) == IsNone(k)

\* AdvancedSettingsMixin.editAdvanced(<setting>=<value>): the request that
\* edits one advanced setting.
EditAdvancedRequest(setting, value) ==
    Request("PUT", key \o PrefsSuffix \o JoinArgs(<<<<setting, StrInt(value)>>>>))

\* The calls modeUpdate and sortUpdate, k being the looked-up code.
AdvancedUpdateCall(setting, k, failAt) ==
    IF UnknownKey(k) THEN [error |-> "BadRequest", requests |-> <<>>]
    ELSE LET reqs == <<EditAdvancedRequest(setting, Val(k))>>
         IN  [error |-> IF Failed(reqs, failAt) THEN "Transport" ELSE "none",
              requests |-> reqs]

\* Collection.modeUpdate
ModeUpdate(mode, failAt) ==
    /\ CanCall
    /\ LET r == AdvancedUpdateCall(CollectionModeName, ModeKey(mode), failAt)
       IN  /\ error' = r.error
           /\ requests' = r.requests
    /\ result' = None
    /\ op' = "modeUpdate" /\ arg' = [form |-> "name", val |-> mode] /\ pc' = "returned"
    /\ UNCHANGED <<live, inst, gen, caches>>

\* Collection.sortUpdate
SortUpdate(sort, failAt) ==
    /\ CanCall
    /\ LET r == AdvancedUpdateCall(CollectionSortName, SortKey(sort), failAt)
       IN  /\ error' = r.error
           /\ requests' = r.requests
    /\ result' = None
    /\ op' = "sortUpdate" /\ arg' = [form |-> "name", val |-> sort] /\ pc' = "returned"
    /\ UNCHANGED <<live, inst, gen, caches>>

\* ----------------------------------------------------------- edit, delete
\* The <field>.locked and <field>.value pairs of a field that is given.
EditPairs(field, v) ==
    IF IsNone(v) THEN <<>>
    ELSE <<<<field \o LockedSuffix, <<"1">>>>, <<field \o ValueSuffix, Val(v)>>>>

\* The args edit() builds from its arguments.
EditArgs(e) ==
    EditPairs(ContentRatingName, e.contentRating) \o EditPairs(SummaryName, e.summary)
        \o EditPairs(TitleName, e.title) \o EditPairs(TitleSortName, e.titleSort)

\* PlexPartialObject.edit(**args): the request that edits the attributes.
EditRequest(args) == Request("PUT", key \o JoinArgs(args))

\* Collection.edit
Edit(e, failAt) ==
    /\ CanCall
    /\ LET reqs == <<EditRequest(EditArgs(e))>>
       IN  /\ error' = IF Failed(reqs, failAt) THEN "Transport" ELSE "none"
           /\ requests' = reqs
    /\ result' = None
    /\ op' = "edit" /\ arg' = [form |-> "edit", val |-> e] /\ pc' = "returned"
    /\ UNCHANGED <<live, inst, gen, caches>>

\* PlexPartialObject.delete(): the request that deletes the collection.
DeleteRequest == Request("DELETE", key)

\* Collection.delete
Delete(failAt) ==
    /\ CanCall
    /\ LET reqs == <<DeleteRequest>>
       IN  /\ error' = IF Failed(reqs, failAt) THEN "Transport" ELSE "none"
           /\ requests' = reqs
    /\ result' = None
    /\ op' = "delete" /\ arg' = NoArg /\ pc' = "returned"
    /\ UNCHANGED <<live, inst, gen, caches>>

\* ---------------------------------------------------------- classification
\* Mutant: the video kinds are the two the class docstring names.
VideoTypes_Docstring == {"movie", "show"}

VideoTypes == {"movie", "show", "season", "episode"}
AudioTypes == {"artist", "album", "track"}
PhotoTypes == {"photoalbum", "photo"}

\* Collection.isVideo, isAudio, isPhoto: self.subtype in {...}
IsVideo == \E t \in VideoTypes : subtype = Some(t)
IsAudio == \E t \in AudioTypes : subtype = Some(t)
IsPhoto == \E t \in PhotoTypes : subtype = Some(t)

\* Collection.listType: None stands for raise Unsupported.
ListType ==
    IF IsVideo THEN Some("video")
    ELSE IF IsAudio THEN Some("audio")
    ELSE IF IsPhoto THEN Some("photo")
    ELSE None

\* A read of the property listType by the caller.
ReadListType ==
    /\ CanCall
    /\ error' = IF IsNone(ListType) THEN "Unsupported" ELSE "none"
    /\ result' = ListType
    /\ requests' = <<>>
    /\ op' = "listType" /\ arg' = NoArg /\ pc' = "returned"
    /\ UNCHANGED <<live, inst, gen, caches>>

\* ------------------------------------------------------------------- sync
\* bool(x) of a string that may be None
Truthy(o) == ~IsNone(o) /\ Val(o) # <<>>

\* urllib.parse.quote_plus(s), on the characters the model uses.
RECURSIVE QuotePlus(_)
QuotePlus(s) ==
    IF s = <<>> THEN <<>>
    ELSE (IF s[1] = " " THEN <<"+">> ELSE QuoteChar(s[1])) \o QuotePlus(Tail(s))

\* server.myPlexAccount(): the lookup of the account.
AccountRequest == Request("GET", AccountPath)

\* The media settings sync() picks: None stands for raise Unsupported.
MediaSettingsKind ==
    IF IsVideo THEN Some("video")
    ELSE IF IsAudio THEN Some("music")
    ELSE IF IsPhoto THEN Some("photo")
    ELSE None

\* The SyncItem sync() fills in.
SyncItemOf(a) ==
    [title |-> IF Truthy(a.title) THEN a.title ELSE title,
     rootTitle |-> title,
     contentType |-> ListType,
     metadataType |-> subtype,
     location |-> DirectoryUri \o QuotePlus(key \o ChildrenSuffix \o ExcludeLeaves),
     policy |-> [limit |-> a.limit, unwatched |-> a.unwatched],
     mediaSettings |-> MediaSettingsKind]

\* myplex.sync(sync_item, ...): the request that submits the sync item.
SyncRequest(item) == [method |-> "POST", path |-> SyncItemsPath, item |-> item]

\* Collection.sync
SyncCall(a, s, failAt) ==
    LET sec == SectionOf(<<>>, failAt, s)
        acct == Append(sec.requests, AccountRequest)
        sent == Append(acct, SyncRequest(SyncItemOf(a)))
    IN  IF sec.error # "none"
        THEN [error |-> sec.error, requests |-> sec.requests, cache |-> sec.cache,
              value |-> None]
        ELSE IF ~Val(sec.value).allowSync
        THEN [error |-> "BadRequest", requests |-> sec.requests, cache |-> sec.cache,
              value |-> None]
        ELSE IF Failed(acct, failAt)
        THEN [error |-> "Transport", requests |-> acct, cache |-> sec.cache, value |-> None]
        ELSE IF IsNone(ListType) \/ IsNone(MediaSettingsKind)
        THEN [error |-> "Unsupported", requests |-> acct, cache |-> sec.cache, value |-> None]
        ELSE IF Failed(sent, failAt)
        THEN [error |-> "Transport", requests |-> sent, cache |-> sec.cache, value |-> None]
        ELSE [error |-> "none", requests |-> sent, cache |-> sec.cache,
              value |-> Some("SyncItem")]

Sync(a, s, failAt) ==
    /\ CanCall
    /\ LET r == SyncCall(a, s, failAt)
       IN  /\ error' = r.error
           /\ requests' = r.requests
           /\ _section' = r.cache
           /\ result' = r.value
    /\ op' = "sync" /\ arg' = [form |-> "sync", val |-> a] /\ pc' = "returned"
    /\ UNCHANGED <<live, inst, gen, _items, fetches>>

\* --------------------------------------------------------------- creation
\* bool(items) of the items argument
HasItems(a) == a.form = "one" \/ (a.form = "seq" /\ a.val # <<>>)

\* if not isinstance(section, LibrarySection): section = server.library.section(section)
\* The requests after the section is resolved; s is the section given, or the
\* one the server answers the name with.
ResolveSection(c, reqs) == IF c.section = "name" THEN Append(reqs, SectionRequest) ELSE reqs

\* The request _create issues.
CreateRequest(c, s, itemType, keys) ==
    Request("POST", CollectionsPath \o JoinArgs(<<
        <<SectionIdName, Str(s.key)>>,
        <<SmartName, Str(0)>>,
        <<TitleName, c.title>>,
        <<TypeName, Str(SearchType(itemType))>>,
        <<UriName, MetadataUri(keys)>>>>))

\* _create from the resolved section on: res are the requests issued so far.
CreateItemsCall(c, s, res, failAt) ==
    LET items == AsList(c.items)
        itemType == items[1].type
        col == CollectKeys(items, Some(itemType), <<>>)
        now == Append(res, CreateRequest(c, s, itemType, col.keys))
    IN  IF res # <<>> /\ Failed(res, failAt)
        THEN [error |-> "Transport", requests |-> res]
        ELSE IF ~col.ok THEN [error |-> "BadRequest", requests |-> res]
        ELSE [error |-> IF Failed(now, failAt) THEN "Transport" ELSE "none",
              requests |-> now]

\* Mutant: the section is resolved before the items are tested, as in
\* _createSmart.
CreateRegularCall_ResolveFirst(c, s, failAt) ==
    LET res == ResolveSection(c, <<>>)
    IN  IF ~(res # <<>> /\ Failed(res, failAt)) /\ ~HasItems(c.items)
        THEN [error |-> "BadRequest", requests |-> res]
        ELSE CreateItemsCall(c, s, res, failAt)

\* Collection._create
CreateRegularCall(c, s, failAt) ==
    IF ~HasItems(c.items) THEN [error |-> "BadRequest", requests |-> <<>>]
    ELSE CreateItemsCall(c, s, ResolveSection(c, <<>>), failAt)

\* The request _createSmart issues.
CreateSmartRequest(c, s, libtype) ==
    Request("POST", CollectionsPath \o JoinArgs(<<
        <<SectionIdName, Str(s.key)>>,
        <<SmartName, Str(1)>>,
        <<TitleName, c.title>>,
        <<TypeName, Str(SearchType(libtype))>>,
        <<UriName, UriRoot \o BuildSearchKey(s, [c.filters EXCEPT !.libtype = Some(libtype)])>>>>))

\* Collection._createSmart
CreateSmartCall(c, s, failAt) ==
    LET res == ResolveSection(c, <<>>)
        libtype == IF IsNone(c.filters.libtype) THEN s.TYPE ELSE Val(c.filters.libtype)
        now == Append(res, CreateSmartRequest(c, s, libtype))
    IN  IF res # <<>> /\ Failed(res, failAt)
        THEN [error |-> "Transport", requests |-> res]
        ELSE [error |-> IF Failed(now, failAt) THEN "Transport" ELSE "none",
              requests |-> now]

\* Collection.create
CreateCall(c, s, failAt) ==
    IF c.smart THEN CreateSmartCall(c, s, failAt) ELSE CreateRegularCall(c, s, failAt)

\* The write path: create() and, when the POST is answered with the record
\* data, the instance parsed from it.
Create(c, s, data, failAt) ==
    /\ CanMake
    /\ LET r == CreateCall(c, s, failAt)
       IN  /\ error' = r.error
           /\ requests' = r.requests
           /\ IF r.error = "none"
              THEN live' = TRUE /\ LoadData(data) /\ result' = Some("Collection")
              ELSE UNCHANGED <<live, inst, _items, _section>> /\ result' = None
    /\ op' = "create" /\ arg' = [form |-> "create", val |-> c] /\ pc' = "returned"
    /\ UNCHANGED <<fetches, gen>>

\* ------------------------------------------------------------- the caller
\* The call has ended: the caller has its result or exception and goes on.
Return ==
    /\ pc = "returned"
    /\ pc' = "idle"
    /\ op' = "none" /\ arg' = NoArg /\ error' = "none" /\ result' = None /\ requests' = <<>>
    /\ UNCHANGED <<live, inst, gen, caches>>

\* ---------------------------------------------------------- specification
Init ==
    /\ live = FALSE /\ pc = "idle"
    /\ rawKey = None /\ key = <<>> /\ smart = FALSE /\ subtype = None /\ title = None
    /\ _items = None /\ _section = None /\ fetches = 0 /\ gen = None
    /\ op = "none" /\ arg = NoArg /\ error = "none" /\ result = None /\ requests = <<>>

Next ==
    \/ CanMake /\ \E d \in Records : Construct(d)
    \/ CanMake /\ \E c \in CreateArgs, sec \in Sections, d \in Records, n \in 0..2 :
                      Create(c, sec, d, n)
    \/ CanCall /\ \E a \in ItemArgs, n \in 0..1 : AddItems(a, n)
    \/ CanCall /\ \E a \in ItemArgs, n \in 0..MaxItems : RemoveItems(a, n)
    \/ CanCall /\ \E f \in FilterArgs, sec \in Sections, n \in 0..2 : UpdateFilters(f, sec, n)
    \/ CanCall /\ \E m \in MemberLists, n \in 0..1 : Items(m, n)
    \/ CanCall /\ \E t \in TitleArgs, m \in MemberLists, n \in 0..1 : Item(t, m, n)
    \/ CanCall /\ \E t \in TitleArgs, m \in MemberLists, n \in 0..1 : Get(t, m, n)
    \/ CanCall /\ \E m \in MemberLists, n \in 0..2 : PlayQueue(m, n)
    \/ CanCall /\ \E m \in MemberLists, n \in 0..1 : Children(m, n)
    \/ CanCall /\ \E m \in MemberLists, n \in 0..1 : __len__(m, n)
    \/ __iter__
    \/ CanCall /\ ~IsNone(gen) /\ \E m \in MemberLists, n \in 0..1 : IterNext(m, n)
    \/ CanCall /\ \E o \in MediaItems, m \in MemberLists, n \in 0..1 : __contains__(o, m, n)
    \/ CanCall /\ \E k \in IndexArgs, m \in MemberLists, n \in 0..1 : __getitem__(k, m, n)
    \/ CanCall /\ \E m \in ModeArgs, n \in 0..1 : ModeUpdate(m, n)
    \/ CanCall /\ \E m \in SortArgs, n \in 0..1 : SortUpdate(m, n)
    \/ CanCall /\ \E e \in EditInputs, n \in 0..1 : Edit(e, n)
    \/ CanCall /\ \E n \in 0..1 : Delete(n)
    \/ CanCall /\ \E a \in SyncArgs, sec \in Sections, n \in 0..3 : Sync(a, sec, n)
    \/ CanCall /\ \E sec \in Sections, n \in 0..1 : Section(sec, n)
    \/ ReadListType
    \/ Return

Spec == Init /\ [][Next]_vars

\* ------------------------------------------------------- parsing, at large
\* Raw keys put together from pieces that make '/children' in every place.
KeyPieces == {ChildrenSuffix, <<"/", "a">>, <<"/">>, <<"c", "h", "i", "l", "d">>, <<"r", "e", "n">>}

RECURSIVE KeysOf(_)
KeysOf(n) == IF n = 0 THEN {<<>>} ELSE KeysOf(n - 1) \cup {k \o q : k \in KeysOf(n - 1), q \in KeyPieces}

\* The subtypes a server sends: those the class tests for, and one it does not.
AllSubtypes ==
    {"movie", "show", "season", "episode", "artist", "album", "track",
     "photoalbum", "photo", "collection"}

ParseRecords ==
    [key : {None} \cup {Some(k) : k \in KeysOf(MaxKeyPieces)}, smart : SmartOpts,
     subtype : {None} \cup {Some(t) : t \in AllSubtypes}, title : {Some(<<"T">>)}]

\* An instance is parsed from any of these records.
ParseNext ==
    \/ CanMake /\ \E d \in ParseRecords : Construct(d)
    \/ ReadListType

ParseSpec == Init /\ [][ParseNext]_vars

\* ================================================================= claims
\* The items of the call that has just ended, as a sequence.
CallItems == IF arg.form = "one" THEN <<arg.val>> ELSE arg.val
CreateItems == IF arg.val.items.form = "one" THEN <<arg.val.items.val>> ELSE arg.val.items.val

\* The ratingKeys of items as strings, in the order of the items.
KeyStrings(items) == [i \in 1..Len(items) |-> Str(items[i].ratingKey)]

IsLookup(r) == r = SectionRequest \/ r = AccountRequest
ValidationError == error \in {"BadRequest", "Unsupported"}

\* C1: on a smart collection addItems and removeItems fail with BadRequest
\* for every argument, and issue no request.
C1_SmartRejectsMembership ==
    (op \in {"addItems", "removeItems"} /\ smart)
        => (error = "BadRequest" /\ requests = <<>>)

C1_Witness ==
    /\ op = "removeItems" /\ smart /\ error = "BadRequest"
    /\ arg.form = "seq" /\ Len(arg.val) = MaxItems

\* C2: on a regular collection updateFilters fails with BadRequest for every
\* combination of arguments; the section has not been looked up and no
\* request has been issued.
C2_RegularRejectsFilters ==
    [][(op' = "updateFilters" /\ ~smart')
        => (error' = "BadRequest" /\ requests' = <<>> /\ _section' = _section)]_vars

C2_Witness ==
    /\ op = "updateFilters" /\ ~smart /\ error = "BadRequest" /\ IsNone(_section)
    /\ ~IsNone(arg.val.libtype) /\ ~IsNone(arg.val.limit) /\ ~IsNone(arg.val.sort)

\* C3: addItems on a regular collection with a sequence holding an item whose
\* type is not the collection's subtype fails with BadRequest and issues no
\* request, wherever the item stands in the sequence.
C3_MixedTypesSendNothing ==
    (op = "addItems" /\ ~smart /\ arg.form = "seq"
        /\ \E i \in 1..Len(arg.val) : Some(arg.val[i].type) # subtype)
        => (error = "BadRequest" /\ requests = <<>>)

C3_Witness ==
    /\ op = "addItems" /\ ~smart /\ arg.form = "seq" /\ Len(arg.val) = 2
    /\ Some(arg.val[1].type) = subtype /\ Some(arg.val[2].type) # subtype
    /\ error = "BadRequest"

\* C4: create with smart false and an empty or absent item list fails with
\* BadRequest; the section is not resolved, no request is issued and no
\* collection is made.
C4_CreateNeedsItems ==
    (op = "create" /\ ~arg.val.smart
        /\ (arg.val.items.form = "none"
            \/ (arg.val.items.form = "seq" /\ arg.val.items.val = <<>>)))
        => (error = "BadRequest" /\ requests = <<>> /\ ~live)

C4_Witness ==
    /\ op = "create" /\ ~arg.val.smart /\ arg.val.section = "name"
    /\ arg.val.items.form = "seq" /\ arg.val.items.val = <<>>
    /\ error = "BadRequest"

\* The PUT of addItems and the POST of regular creation for the given items.
ExpectedAdd(items) ==
    Request("PUT", key \o ItemsSuffix \o JoinArgs(<<<<UriName,
        UriRoot \o MetadataPath \o Join(KeyStrings(items), <<",">>)>>>>))
ExpectedCreate(c, items) ==
    {CreateRequest(c, s, items[1].type, KeyStrings(items)) : s \in Sections}
Posts(reqs) == {i \in 1..Len(reqs) : reqs[i].method = "POST"}
AddMatches == op = "addItems" /\ ~smart /\ \A i \in 1..Len(CallItems) : Some(CallItems[i].type) = subtype
CreateMatches ==
    /\ op = "create" /\ ~arg.val.smart /\ arg.val.items.form # "none"
    /\ \A i, j \in 1..Len(CreateItems) : CreateItems[i].type = CreateItems[j].type

\* C5, as claimed: for every sequence of items of one type, addItems issues
\* exactly one PUT to <key>/items and regular creation exactly one POST to
\* /library/collections, the uri being the root, /library/metadata/ and the
\* ratingKeys joined by commas in input order.  (Calls the transport fails
\* are left aside.)
C5_OneRequestForEverySequence ==
    /\ AddMatches => requests = <<ExpectedAdd(CallItems)>>
    /\ (CreateMatches /\ error # "Transport")
        => /\ Cardinality(Posts(requests)) = 1
           /\ requests[Len(requests)] \in ExpectedCreate(arg.val, CreateItems)

\* C5, amended: the same, for regular creation only when the sequence is not
\* empty and the lookup of a section given by name has not failed.
C5_OneRequestForNonEmpty ==
    /\ AddMatches => requests = <<ExpectedAdd(CallItems)>>
    /\ (CreateMatches /\ CreateItems # <<>>
            /\ ~(error = "Transport" /\ requests = <<SectionRequest>>))
        => /\ Cardinality(Posts(requests)) = 1
           /\ requests[Len(requests)] \in ExpectedCreate(arg.val, CreateItems)

C5_Witness ==
    /\ op = "create" /\ error = "none" /\ ~arg.val.smart
    /\ arg.val.items.form = "seq" /\ Len(CreateItems) = 2
    /\ CreateItems[1].ratingKey = 12 /\ CreateItems[2].ratingKey = 7

\* C6, as claimed: one instance issues at most one fetch of <key>/children.
C6_AtMostOneFetch == fetches <= 1

\* C6, amended: once a fetch of <key>/children has succeeded the list is
\* memoized, also when it is empty: no later call (addItems, removeItems and
\* updateFilters included) fetches again or changes the list, and items()
\* returns it.  A fetch the transport fails memoizes nothing.
C6_MemoizedOnceFetched ==
    /\ [][~IsNone(_items) => (_items' = _items /\ fetches' = fetches)]_vars
    /\ []((op = "items" /\ error = "none") => (~IsNone(_items) /\ result = _items))
    /\ []((op = "items" /\ error = "Transport") => IsNone(_items))
    /\ [](~IsNone(_items) => fetches >= 1)

C6_Witness ==
    /\ op = "items" /\ error = "none" /\ requests = <<>>
    /\ _items = Some(<<>>) /\ result = Some(<<>>) /\ fetches = 1

\* C7: the stored key is the record's key with a trailing /children removed,
\* and the record's key unchanged when it does not end in /children.
RawKey == IF IsNone(rawKey) THEN <<>> ELSE Val(rawKey)
C7_TrailingSuffixOnly ==
    live => key = IF EndsWith(RawKey, ChildrenSuffix)
                  THEN SubSeq(RawKey, 1, Len(RawKey) - Len(ChildrenSuffix))
                  ELSE RawKey

\* The one request that sets an advanced setting to a code.
ExpectedSetting(name, code) ==
    <<Request("PUT", key \o PrefsSuffix \o <<"?">> \o name \o <<"=">> \o code)>>

\* C8: modeUpdate issues one request setting collectionMode to -1, 0, 1, 2
\* for default, hide, hideItems, showItems, and sortUpdate one setting
\* collectionSort to 0, 1, 2 for release, alpha, custom; any other argument,
\* or none, fails with BadRequest and issues no request.
C8_ModeAndSortCodes ==
    /\ op = "modeUpdate" =>
        CASE arg.val = Some("default") -> requests = ExpectedSetting(CollectionModeName, <<"-", "1">>)
          [] arg.val = Some("hide") -> requests = ExpectedSetting(CollectionModeName, <<"0">>)
          [] arg.val = Some("hideItems") -> requests = ExpectedSetting(CollectionModeName, <<"1">>)
          [] arg.val = Some("showItems") -> requests = ExpectedSetting(CollectionModeName, <<"2">>)
          [] OTHER -> error = "BadRequest" /\ requests = <<>>
    /\ op = "sortUpdate" =>
        CASE arg.val = Some("release") -> requests = ExpectedSetting(CollectionSortName, <<"0">>)
          [] arg.val = Some("alpha") -> requests = ExpectedSetting(CollectionSortName, <<"1">>)
          [] arg.val = Some("custom") -> requests = ExpectedSetting(CollectionSortName, <<"2">>)
          [] OTHER -> error = "BadRequest" /\ requests = <<>>

C8_Witness == op = "modeUpdate" /\ arg.val = Some("hide") /\ error = "none" /\ Len(requests) = 1

\* The calls that can fail a local validation.
Validating ==
    \/ op \in {"addItems", "removeItems", "updateFilters", "modeUpdate", "sortUpdate", "sync"}
    \/ op = "create" /\ ~arg.val.smart

\* C9, as claimed: a call that ends in a validation error has issued no
\* request of any kind.
C9_NoRequestBeforeValidationError ==
    (Validating /\ ValidationError) => requests = <<>>

\* C9, amended: a call that ends in a validation error has issued no mutation.
\* addItems, removeItems, updateFilters, modeUpdate, sortUpdate and creation
\* without items have issued no request at all; creation with mixed types has
\* resolved a section given by name; sync has looked up the section unless it
\* was cached, and the account too when the kind is unsupported.
C9_NoMutationBeforeValidationError ==
    (Validating /\ ValidationError) =>
        /\ \A i \in 1..Len(requests) : IsLookup(requests[i])
        /\ op \notin {"sync", "create"} => requests = <<>>
        /\ (op = "create" /\ (arg.val.items.form = "none" \/ CreateItems = <<>>))
            => requests = <<>>
        /\ (op = "create" /\ arg.val.items.form # "none" /\ CreateItems # <<>>)
            => requests = (IF arg.val.section = "name" THEN <<SectionRequest>> ELSE <<>>)
        /\ (op = "sync" /\ error = "BadRequest") => requests \in {<<>>, <<SectionRequest>>}
        /\ (op = "sync" /\ error = "Unsupported")
            => requests \in {<<AccountRequest>>, <<SectionRequest, AccountRequest>>}

C9_Witness ==
    /\ op = "sync" /\ error = "Unsupported"
    /\ requests = <<SectionRequest, AccountRequest>>

\* C10: the smart flag decides which mutations pass their guard: on a regular
\* collection addItems and removeItems pass and updateFilters is rejected, on
\* a smart one updateFilters passes and addItems and removeItems are
\* rejected; and no call on the instance changes the flag.
C10_ExactlyOneMutationSet ==
    /\ []((op \in {"addItems", "removeItems"} /\ smart) => error = "BadRequest")
    /\ []((op = "removeItems" /\ ~smart) => error # "BadRequest")
    /\ []((op = "addItems" /\ ~smart /\ \A i \in 1..Len(CallItems) : Some(CallItems[i].type) = subtype)
            => error # "BadRequest")
    /\ []((op = "updateFilters" /\ ~smart) => error = "BadRequest")
    /\ []((op = "updateFilters" /\ smart) => error # "BadRequest")
    /\ [][live => (live' /\ smart' = smart)]_vars

C10_Witness == op = "updateFilters" /\ smart /\ error = "none" /\ Len(requests) = 2

\* The kind the table of the classification gives a subtype, or None.
KindOf(st) ==
    IF st \in {Some("movie"), Some("show"), Some("season"), Some("episode")} THEN Some("video")
    ELSE IF st \in {Some("artist"), Some("album"), Some("track")} THEN Some("audio")
    ELSE IF st \in {Some("photoalbum"), Some("photo")} THEN Some("photo")
    ELSE None

\* C11: for a subtype of the video, audio or photo set exactly one of isVideo,
\* isAudio, isPhoto is true, the one of its set, and listType returns video,
\* audio or photo accordingly; for every other subtype, an absent one
\* included, the three are false and listType fails with Unsupported.
C11_ClassificationTable ==
    live =>
        /\ IsVideo = (KindOf(subtype) = Some("video"))
        /\ IsAudio = (KindOf(subtype) = Some("audio"))
        /\ IsPhoto = (KindOf(subtype) = Some("photo"))
        /\ op = "listType" =>
            IF IsNone(KindOf(subtype))
            THEN error = "Unsupported" /\ IsNone(result)
            ELSE error = "none" /\ result = KindOf(subtype)

C11_Witness ==
    /\ op = "listType" /\ subtype = Some("season")
    /\ IsVideo /\ ~IsAudio /\ ~IsPhoto /\ result = Some("video")

\* The DELETE requests of the items, one for each, in the order of the items.
ExpectedDeletes(items) ==
    [i \in 1..Len(items) |->
        Request("DELETE", key \o ItemsSuffix \o <<"/">> \o KeyStrings(items)[i])]

\* C12: removeItems on a regular collection given N items issues exactly N
\* DELETE requests, one for each item at <key>/items/<itemId>, in the order of
\* the input and whatever the types of the items; when the transport fails on
\* the k-th request the error propagates, the first k-1 deletions have been
\* issued, and no request is issued for the items after the k-th.
C12_OneDeletePerItem ==
    [][(op' = "removeItems" /\ ~smart) =>
        \A k \in 0..MaxItems :
            RemoveItems(arg', k) =>
                LET items == AsList(arg')
                    all == ExpectedDeletes(items)
                IN  IF k \in 1..Len(items)
                    THEN /\ error' = "Transport"
                         /\ requests' = SubSeq(all, 1, k)
                    ELSE /\ error' = "none"
                         /\ requests' = all]_vars

C12_Witness ==
    /\ op = "removeItems" /\ ~smart
    /\ Len(CallItems) = 2 /\ CallItems[1].type # CallItems[2].type
    /\ error = "Transport" /\ Len(requests) = 1
    /\ requests = SubSeq(ExpectedDeletes(CallItems), 1, 1)
====
